---- MODULE Spec2Model ----
(***************************************************************************)
(* Model of src/main.py: the batch watermark remover.                      *)
(*                                                                         *)
(* main() parses the arguments and calls process_images inside one         *)
(* try/except Exception.  process_images creates the output directory,     *)
(* lists the direct children of the input directory whose suffix is in the *)
(* allow-list, and calls remove_watermark on each in turn.                 *)
(* remove_watermark decodes the file (cv2.imread), builds the text mask    *)
(* (generate_text_mask), inpaints (cv2.inpaint) and writes the result      *)
(* (cv2.imwrite, whose boolean result the code does not look at).          *)
(*                                                                         *)
(* File names are sequences of one-character strings so that Path.suffix   *)
(* and str.lower are computed, not assumed.  Image buffers are modelled by *)
(* their shape; the mask also carries the footprint putText draws.         *)
(***************************************************************************)
EXTENDS Integers, Sequences, FiniteSets, TLC

\* ------------------------------------------------------------- bounds
\* Largest number of direct children of the input directory.
MaxFiles == 2
\* Decoded images have between 1 and MaxDim rows and columns.
MaxDim == 2
\* Width of one glyph and height of a text line, as cv2.getTextSize measures
\* them for the fixed font, scale and thickness (in model pixels).
GlyphAdvance == 1
GlyphHeight == 1

\* cv2.inpaint's inpaintRadius argument.
InpaintRadius == 7
\* cv2.imread's default flag IMREAD_COLOR always decodes to 3 channels.
Channels == 3

\* ------------------------------------------------------------- strings
SAMPLE == <<"S", "A", "M", "P", "L", "E">>

\* The values of --text the model runs with: the default and a short one.
Texts == {SAMPLE, <<"S">>}

\* str.lower() on one character.
LowerChar(c) ==
    CASE c = "J" -> "j" [] c = "P" -> "p" [] c = "E" -> "e" [] c = "G" -> "g"
      [] c = "N" -> "n" [] c = "T" -> "t" [] c = "I" -> "i" [] c = "F" -> "f"
      [] c = "B" -> "b" [] c = "M" -> "m"
      [] OTHER -> c

\* str.lower()
lower(s) == [i \in 1..Len(s) |-> LowerChar(s[i])]

\* str.rfind('.') as a 1-based position, 0 when there is no dot.
RFindDot(name) ==
    LET dots == {i \in 1..Len(name) : name[i] = "."}
    IN  IF dots = {} THEN 0 ELSE CHOOSE i \in dots : \A j \in dots : j <= i

\* PurePath.suffix: the last dot and what follows it, unless the dot is the
\* first or the last character of the name.
suffix(name) ==
    LET i == RFindDot(name)
    IN  IF 1 < i /\ i < Len(name) THEN SubSeq(name, i, Len(name)) ELSE <<>>

image_extensions ==
    { <<".", "j", "p", "g">>, <<".", "j", "p", "e", "g">>, <<".", "p", "n", "g">>,
      <<".", "b", "m", "p">>, <<".", "t", "i", "f", "f">>, <<".", "t", "i", "f">> }

\* ------------------------------------------------------------- file system
\* A path below the input directory is the sequence of its components.
A_JPG     == <<"a", ".", "j", "p", "g">>
B_JPEG    == <<"b", ".", "J", "P", "e", "G">>
C_PNG     == <<"c", ".", "P", "N", "G">>
D_BMP     == <<"d", ".", "b", "m", "p">>
E_TIFF    == <<"e", ".", "t", "i", "f", "f">>
F_TIF     == <<"f", ".", "T", "i", "f">>
G_TXT     == <<"g", ".", "t", "x", "t">>
DOT_PNG   == <<".", "p", "n", "g">>
H_PNG_BAK == <<"h", ".", "p", "n", "g", ".", "b", "a", "k">>
SUB       == <<"s", "u", "b">>
DIR_TIF   == <<"d", "i", "r", ".", "t", "i", "f">>
K_PNG     == <<"k", ".", "p", "n", "g">>

\* Regular files and directories the input directory may hold.
FilePaths ==
    { <<A_JPG>>, <<B_JPEG>>, <<C_PNG>>, <<D_BMP>>, <<E_TIFF>>, <<F_TIF>>,
      <<G_TXT>>, <<DOT_PNG>>, <<H_PNG_BAK>>, <<SUB, K_PNG>>, <<DIR_TIF, A_JPG>> }
DirPaths == { <<SUB>>, <<DIR_TIF>> }
Universe == FilePaths \cup DirPaths

\* PurePath.name: the last component.
name(path) == path[Len(path)]

\* Path.iterdir() of the input directory: its direct children only.
iterdir(fs) == {p \in fs : Len(p) = 1}

\* The filter with the .lower() call left out.
IsImageFileCaseSensitive(f) == suffix(name(f)) \in image_extensions

\* The filter of the list comprehension.
IsImageFile(f) == lower(suffix(name(f))) \in image_extensions

\* The trees the input directory can hold: a nested path needs its parent,
\* and there are at most MaxFiles direct children.
Trees ==
    { fs \in SUBSET Universe :
        /\ \A p \in fs : Len(p) > 1 => SubSeq(p, 1, Len(p) - 1) \in fs
        /\ Cardinality(iterdir(fs)) <= MaxFiles }

\* All orders in which the operating system may enumerate a set of entries.
Orders(S) ==
    { s \in [1..Cardinality(S) -> S] : \A i, j \in 1..Cardinality(S) : s[i] = s[j] => i = j }

\* ------------------------------------------------------------- images
\* numpy shape of a decoded image: (rows, columns, channels).
Shapes == { <<h, w, Channels>> : h \in 1..MaxDim, w \in 1..MaxDim }

None == <<>>

\* cv2.getTextSize for the fixed font, scale and thickness: (width, height).
getTextSize(text) == <<GlyphAdvance * Len(text), GlyphHeight>>

\* The anchor computed with a division that rounds toward zero.
TextOrgTruncating(mask_shape, text_size) ==
    LET trunc(a) == IF a >= 0 THEN a \div 2 ELSE -((-a) \div 2)
    IN  << trunc(mask_shape[2] - text_size[1]), trunc(mask_shape[1] + text_size[2]) >>

\* The anchor of lines 18-19: Python's // is floor division, as is \div.
TextOrg(mask_shape, text_size) ==
    << (mask_shape[2] - text_size[1]) \div 2, (mask_shape[1] + text_size[2]) \div 2 >>

\* cv2.putText: the pixels (row, column) of the canvas under the text box whose
\* bottom-left corner is org; what falls outside the canvas is clipped.
putText(mask_shape, text_size, org) ==
    { rc \in (0..(mask_shape[1] - 1)) \X (0..(mask_shape[2] - 1)) :
        /\ org[1] <= rc[2] /\ rc[2] < org[1] + text_size[1]
        /\ org[2] - text_size[2] < rc[1] /\ rc[1] <= org[2] }

\* The mask allocated with the whole image shape, channel axis included.
generate_text_mask_full_shape(image_shape, text) ==
    LET text_size == getTextSize(text)
        org       == TextOrg(SubSeq(image_shape, 1, 2), text_size)
    IN  [shape |-> image_shape, org |-> org,
         on |-> putText(SubSeq(image_shape, 1, 2), text_size, org)]

\* generate_text_mask(image_shape, text): the mask, with the anchor it was
\* drawn at.
generate_text_mask(image_shape, text) ==
    LET mask_shape == SubSeq(image_shape, 1, 2)
        text_size  == getTextSize(text)
        org        == TextOrg(mask_shape, text_size)
    IN  [shape |-> mask_shape, org |-> org, on |-> putText(mask_shape, text_size, org)]

NoMask == [shape |-> <<>>, org |-> <<>>, on |-> {}]
NoCall == [src |-> <<>>, mask |-> <<>>, radius |-> 0]

\* ------------------------------------------------------------- state
VARIABLES
    text,             \* args.text, the watermark text of the run
    inputExists,      \* whether input_dir is an existing directory
    fs,               \* the paths below input_dir
    outDir,           \* output_dir: "absent", "present", "readonly", "uncreatable"
    created,          \* whether mkdir had to create output_dir
    pc,               \* where main() is
    image_files,      \* the list built at line 47
    idx,              \* position of the for loop in image_files (1-based)
    processed_count,  \* line 56
    image,            \* shape of the buffer cv2.imread returned, or None
    mask,             \* what generate_text_mask returned
    inpaintCall,      \* the arguments cv2.inpaint was called with
    result,           \* shape of the buffer cv2.inpaint returned
    written,          \* names of the files cv2.imwrite wrote into output_dir
    calls,            \* the library calls made so far, in order
    printed,          \* the console output so far, in order
    exc               \* the exception main's handler caught, or "none"

vars == << text, inputExists, fs, outDir, created, pc, image_files, idx, processed_count,
           image, mask, inpaintCall, result, written, calls, printed, exc >>

env == << text, inputExists, fs >>
buffers == << image, mask, inpaintCall, result >>

Msg(m, n, p) == [msg |-> m, n |-> n, path |-> p]
\* A library call: what was called, for which file, with which watermark text,
\* and how it came back.
Call(op, p, t, r) == [op |-> op, path |-> p, text |-> t, ret |-> r]

OutDirStates == {"absent", "present", "readonly", "uncreatable"}

Init ==
    /\ text \in Texts
    /\ inputExists \in BOOLEAN
    /\ fs \in Trees
    /\ (~inputExists => fs = {})
    /\ outDir \in OutDirStates
    /\ created = FALSE
    /\ pc = "mkdir"
    /\ image_files = <<>>
    /\ idx = 0
    /\ processed_count = 0
    /\ image = None
    /\ mask = NoMask
    /\ inpaintCall = NoCall
    /\ result = None
    /\ written = {}
    /\ calls = <<>>
    /\ printed = <<>>
    /\ exc = "none"

\* ------------------------------------------------------------- main
\* The handler placed around the loop instead: the error is printed and the
\* summary still follows.
ExceptThenSummary(e) ==
    /\ pc' = "summary"
    /\ exc' = e
    /\ printed' = Append(printed, [msg |-> "Error", n |-> 0, path |-> <<>>])

\* Lines 74-77: an exception raised anywhere below process_images unwinds to
\* the except clause of main, which prints it; main then returns.
Except(e) ==
    /\ pc' = "exit"
    /\ exc' = e
    /\ printed' = Append(printed, Msg("Error", 0, <<>>))

\* Line 51, or falling off the end of process_images: main returns.
Return == pc' = "exit" /\ exc' = "none"

\* ------------------------------------------------------------- process_images
\* Line 42: output_dir.mkdir(parents=True, exist_ok=True).
MkdirOk ==
    /\ pc = "mkdir"
    /\ outDir # "uncreatable"
    /\ outDir' = IF outDir = "absent" THEN "present" ELSE outDir
    /\ created' = (outDir = "absent")
    /\ pc' = "list"
    /\ UNCHANGED << env, image_files, idx, processed_count, buffers, written,
                    calls, printed, exc >>

MkdirRaises ==
    /\ pc = "mkdir"
    /\ outDir = "uncreatable"
    /\ Except("OSError")
    /\ UNCHANGED << env, outDir, created, image_files, idx, processed_count, buffers,
                    written, calls >>

\* Line 47 on a missing input directory: iterdir raises.
ListRaises ==
    /\ pc = "list"
    /\ ~inputExists
    /\ Except("FileNotFoundError")
    /\ UNCHANGED << env, outDir, created, image_files, idx, processed_count, buffers,
                    written, calls >>

\* The empty case without its return statement: the tally is printed too.
ListEmptyFallsThrough ==
    /\ pc = "list"
    /\ inputExists
    /\ {f \in iterdir(fs) : IsImageFile(f)} = {}
    /\ image_files' = <<>>
    /\ printed' = Append(printed, [msg |-> "No image files found", n |-> 0, path |-> <<>>])
    /\ pc' = "summary"
    /\ UNCHANGED << env, outDir, created, idx, processed_count, buffers, written, calls, exc >>

\* Lines 47-51: nothing matches.
ListEmpty ==
    /\ pc = "list"
    /\ inputExists
    /\ {f \in iterdir(fs) : IsImageFile(f)} = {}
    /\ image_files' = <<>>
    /\ printed' = Append(printed, Msg("No image files found", 0, <<>>))
    /\ Return
    /\ UNCHANGED << env, outDir, created, idx, processed_count, buffers, written, calls >>

\* Lines 47-56: the matching children, in the order the directory yields them.
ListFound ==
    /\ pc = "list"
    /\ inputExists
    /\ {f \in iterdir(fs) : IsImageFile(f)} # {}
    /\ \E order \in Orders({f \in iterdir(fs) : IsImageFile(f)}) :
           /\ image_files' = order
           /\ printed' = Append(printed, Msg("Found", Len(order), <<>>))
    /\ processed_count' = 0
    /\ idx' = 1
    /\ pc' = "imread"
    /\ UNCHANGED << env, outDir, created, buffers, written, calls, exc >>

\* The loop counting every file as processed, whatever remove_watermark returned.
NextFileCountsAll(ok) ==
    /\ processed_count' = processed_count + 1
    /\ idx' = idx + 1
    /\ pc' = IF idx + 1 <= Len(image_files) THEN "imread" ELSE "summary"

\* The loop leaving at the first file remove_watermark returns False for.
NextFileBreaks(ok) ==
    /\ processed_count' = IF ok THEN processed_count + 1 ELSE processed_count
    /\ idx' = idx + 1
    /\ pc' = IF ok /\ idx + 1 <= Len(image_files) THEN "imread" ELSE "summary"

\* The loop trying a file again when remove_watermark returned False.
NextFileRetries(ok) ==
    /\ processed_count' = IF ok THEN processed_count + 1 ELSE processed_count
    /\ idx' = IF ok THEN idx + 1 ELSE idx
    /\ pc' = IF ok /\ idx + 1 > Len(image_files) THEN "summary" ELSE "imread"

\* The for statement of line 57 moving on after remove_watermark returned ok.
NextFile(ok) ==
    /\ processed_count' = IF ok THEN processed_count + 1 ELSE processed_count
    /\ idx' = idx + 1
    /\ pc' = IF idx + 1 <= Len(image_files) THEN "imread" ELSE "summary"

\* ------------------------------------------------------------- remove_watermark
\* remove_watermark returns: its local buffers are gone.
Discard == image' = None /\ mask' = NoMask /\ inpaintCall' = NoCall /\ result' = None

\* Lines 57-59 and 26-29: cv2.imread returns None (a directory never decodes);
\* the error is printed and remove_watermark returns False.
ImreadFails ==
    /\ pc = "imread"
    /\ calls' = Append(calls, Call("imread", image_files[idx], text, "None"))
    /\ printed' = Append(printed, Msg("Error: Could not read image", 0, image_files[idx]))
    /\ NextFile(FALSE)
    /\ UNCHANGED << env, outDir, created, image_files, buffers, written, exc >>

\* Lines 57-59 and 26-27: cv2.imread decodes the file.
ImreadOk ==
    /\ pc = "imread"
    /\ image_files[idx] \in FilePaths
    /\ calls' = Append(calls, Call("imread", image_files[idx], text, "image"))
    /\ \E shape \in Shapes : image' = shape
    /\ UNCHANGED << mask, inpaintCall, result >>
    /\ pc' = "mask"
    /\ UNCHANGED << env, outDir, created, image_files, idx, processed_count, written,
                    printed, exc >>

\* Line 31.
GenerateMask ==
    /\ pc = "mask"
    /\ calls' = Append(calls, Call("generate_text_mask", image_files[idx], text, "mask"))
    /\ mask' = generate_text_mask(image, text)
    /\ pc' = "inpaint"
    /\ UNCHANGED << env, outDir, created, image_files, idx, processed_count, image,
                    inpaintCall, result, written, printed, exc >>

\* Line 34: cv2.inpaint accepts a single-channel mask of the image's size and
\* returns a buffer of the image's shape.
InpaintOk ==
    /\ pc = "inpaint"
    /\ mask.shape = SubSeq(image, 1, 2)
    /\ calls' = Append(calls, Call("inpaint", image_files[idx], text, "result"))
    /\ inpaintCall' = [src |-> image, mask |-> mask.shape, radius |-> InpaintRadius]
    /\ result' = image
    /\ pc' = "imwrite"
    /\ UNCHANGED << env, outDir, created, image_files, idx, processed_count, image, mask,
                    written, printed, exc >>

\* Line 34: cv2.inpaint raises (a mask it rejects, or a fault of its own).
InpaintRaises ==
    /\ pc = "inpaint"
    /\ calls' = Append(calls, Call("inpaint", image_files[idx], text, "raise"))
    /\ inpaintCall' = [src |-> image, mask |-> mask.shape, radius |-> InpaintRadius]
    /\ Except("cv2.error")
    /\ UNCHANGED << env, outDir, created, image_files, idx, processed_count, image, mask,
                    result, written >>

\* Lines 35-37 and 59-60: cv2.imwrite writes output_dir / image_path.name and
\* returns True; remove_watermark returns True.
ImwriteOk ==
    /\ pc = "imwrite"
    /\ outDir = "present"
    /\ calls' = Append(calls, Call("imwrite", image_files[idx], text, "True"))
    /\ written' = written \cup {name(image_files[idx])}
    /\ NextFile(TRUE)
    /\ Discard
    /\ UNCHANGED << env, outDir, created, image_files, printed, exc >>

\* Lines 35-37 and 59-60: cv2.imwrite cannot write the file and returns
\* False; the code drops that value and remove_watermark returns True.
ImwriteFalse ==
    /\ pc = "imwrite"
    /\ outDir = "readonly"
    /\ calls' = Append(calls, Call("imwrite", image_files[idx], text, "False"))
    /\ NextFile(TRUE)
    /\ Discard
    /\ UNCHANGED << env, outDir, created, image_files, written, printed, exc >>

\* Line 35: cv2.imwrite raises.
ImwriteRaises ==
    /\ pc = "imwrite"
    /\ calls' = Append(calls, Call("imwrite", image_files[idx], text, "raise"))
    /\ Except("cv2.error")
    /\ UNCHANGED << env, outDir, created, image_files, idx, processed_count, buffers,
                    written >>

\* Lines 62-64.
Summary ==
    /\ pc = "summary"
    /\ printed' = printed \o << Msg("Processing complete", 0, <<>>),
                                Msg("Successful", processed_count, <<>>),
                                Msg("Failed", Len(image_files) - processed_count, <<>>) >>
    /\ Return
    /\ UNCHANGED << env, outDir, created, image_files, idx, processed_count, buffers,
                    written, calls >>

Next ==
    \/ MkdirOk \/ MkdirRaises
    \/ ListRaises \/ ListEmpty \/ ListFound
    \/ ImreadFails \/ ImreadOk
    \/ GenerateMask
    \/ InpaintOk \/ InpaintRaises
    \/ ImwriteOk \/ ImwriteFalse \/ ImwriteRaises
    \/ Summary

Spec == Init /\ [][Next]_vars

\* ------------------------------------------------------------- vocabulary
Last(q) == q[Len(q)]
Range(q) == {q[i] : i \in DOMAIN q}

\* Positions of the calls of an operation that came back a given way.
CallsOf(op, ret) == {i \in DOMAIN calls : calls[i].op = op /\ calls[i].ret = ret}

\* The files cv2.imread has been called on, in call order.
Attempts ==
    LET IsRead(c) == c.op = "imread"
        reads == SelectSeq(calls, IsRead)
    IN  [i \in DOMAIN reads |-> reads[i].path]

Decoded == {calls[i].path : i \in CallsOf("imread", "image")}
DecodeFailed == {calls[i].path : i \in CallsOf("imread", "None")}

\* The numbers printed after a given label, and whether a label was printed.
Tally(m) == {printed[i].n : i \in {j \in DOMAIN printed : printed[j].msg = m}}
Says(m) == \E i \in DOMAIN printed : printed[i].msg = m
SummaryPrinted == Says("Successful") /\ Says("Failed")

\* The allow-list as the documentation gives it, without dots.
AllowList ==
    { <<"j", "p", "g">>, <<"j", "p", "e", "g">>, <<"p", "n", "g">>,
      <<"b", "m", "p">>, <<"t", "i", "f", "f">>, <<"t", "i", "f">> }

\* A name ends in a non-empty stem, a dot and an allowed extension in any case.
HasAllowedExtension(n) ==
    \E e \in AllowList :
        /\ Len(n) > Len(e) + 1
        /\ n[Len(n) - Len(e)] = "."
        /\ \A k \in 1..Len(e) : LowerChar(n[Len(n) - Len(e) + k]) = e[k]

\* The direct children of the input directory with an allowed extension.
AllowedChildren == {p \in fs : Len(p) = 1 /\ HasAllowedExtension(p[1])}

\* ------------------------------------------------------------- claims
\* C1: when process_images reaches its summary, 'Successful' is the number of
\* matched files that decoded, 'Failed' the number that did not decode, and
\* the two add up to the number of matched files.
TallyCountsDecodes ==
    SummaryPrinted =>
        /\ Tally("Successful") = {Cardinality(Decoded)}
        /\ Tally("Failed") = {Cardinality(DecodeFailed)}
        /\ Cardinality(Decoded) + Cardinality(DecodeFailed) = Cardinality(AllowedChildren)

TallyCountsDecodesWitness ==
    /\ SummaryPrinted
    /\ Decoded # {}
    /\ DecodeFailed # {}

\* C2: after a batch that reaches its summary, the output directory holds a
\* result for exactly the matched files that decoded, under the input's name,
\* and the number of results equals the 'Successful' count.
OutputHoldsEveryDecoded ==
    SummaryPrinted =>
        /\ written = {name(p) : p \in Decoded}
        /\ Tally("Successful") = {Cardinality(written)}

\* C3: a decode failure is reported, produces no mask, inpaint or write, and
\* does not stop the batch: the next listed file is the next one read, after
\* the last file the summary follows, and a batch that ends without an
\* exception has read every listed file and printed the summary.
DecodeFailureIsolated ==
    /\ \A i \in CallsOf("imread", "None") :
          LET f == calls[i].path
              k == CHOOSE k \in DOMAIN image_files : image_files[k] = f
          IN  /\ \E j \in DOMAIN printed :
                    /\ printed[j].msg = "Error: Could not read image"
                    /\ printed[j].path = f
              /\ \A j \in DOMAIN calls : calls[j].path = f => j = i
              /\ name(f) \notin written
              /\ IF k < Len(image_files)
                   THEN \/ /\ i < Len(calls)
                           /\ calls[i + 1].op = "imread"
                           /\ calls[i + 1].path = image_files[k + 1]
                        \/ i = Len(calls) /\ pc = "imread" /\ idx = k + 1
                   ELSE pc = "summary" \/ SummaryPrinted
    /\ (pc = "exit" /\ exc = "none" /\ DecodeFailed # {}) =>
          /\ Range(Attempts) = Range(image_files)
          /\ SummaryPrinted
    /\ (exc # "none" /\ calls # <<>>) => Last(calls).ret = "raise"

DecodeFailureIsolatedWitness ==
    /\ pc = "exit"
    /\ SummaryPrinted
    /\ Len(Attempts) > 1
    /\ Attempts[1] \in DecodeFailed
    /\ Attempts[Len(Attempts)] \in Decoded
    /\ name(Attempts[Len(Attempts)]) \in written

\* C4: a fault raised by a library call while file i is processed reaches
\* main's handler: the error is printed once, no later file is read, no
\* summary is printed, what was written before stays, and main returns.
FaultAbandonsBatch ==
    (calls # <<>> /\ Last(calls).ret = "raise") =>
        /\ pc = "exit"
        /\ exc = "cv2.error"
        /\ Last(printed).msg = "Error"
        /\ Cardinality({j \in DOMAIN printed : printed[j].msg = "Error"}) = 1
        /\ ~SummaryPrinted
        /\ image_files[idx] = Last(calls).path
        /\ Attempts = SubSeq(image_files, 1, idx)
        /\ written = {name(calls[j].path) : j \in CallsOf("imwrite", "True")}
        /\ \A j \in CallsOf("imwrite", "True") :
              \E k \in 1..(idx - 1) : image_files[k] = calls[j].path

FaultAbandonsBatchWitness ==
    /\ calls # <<>>
    /\ Last(calls).ret = "raise"
    /\ Last(calls).op = "inpaint"
    /\ idx < Len(image_files)
    /\ image_files[idx + 1] \notin Range(Attempts)
    /\ pc = "exit"

\* C5: with an existing input directory without a matching child (and an
\* output directory that exists or can be created), the output directory
\* exists afterwards, 'No image files found' is the only output, no file is
\* read or written, no tally is printed and no exception is raised.
EmptyInputReportsNoImages ==
    (pc = "exit" /\ inputExists /\ AllowedChildren = {} /\ outDir # "uncreatable") =>
        /\ outDir \in {"present", "readonly"}
        /\ printed = << Msg("No image files found", 0, <<>>) >>
        /\ calls = <<>>
        /\ written = {}
        /\ ~SummaryPrinted
        /\ exc = "none"

EmptyInputReportsNoImagesWitness ==
    /\ pc = "exit"
    /\ inputExists
    /\ iterdir(fs) # {}
    /\ AllowedChildren = {}
    /\ created
    /\ Says("No image files found")

\* C6: a missing input directory and an output path that cannot be written
\* both end in main's handler with one error message, and no file is
\* reported as successfully processed.
DirectoryErrorsReachHandler ==
    ( /\ pc = "exit"
      /\ \/ ~inputExists
         \/ outDir = "uncreatable"
         \/ outDir = "readonly" /\ \E i \in DOMAIN calls : calls[i].op = "imwrite" ) =>
        /\ exc # "none"
        /\ Cardinality({j \in DOMAIN printed : printed[j].msg = "Error"}) = 1
        /\ \A n \in Tally("Successful") : n = 0

\* C7: the mask generate_text_mask returns, and the one cv2.inpaint is
\* called with, has the rows and columns of the decoded image and no
\* channel axis.
MaskHasImageSize ==
    /\ pc = "inpaint" => mask.shape = << image[1], image[2] >>
    /\ (calls # <<>> /\ Last(calls).op = "inpaint") =>
          /\ inpaintCall.src = image
          /\ inpaintCall.mask = mask.shape
          /\ inpaintCall.mask = << image[1], image[2] >>

MaskHasImageSizeWitness ==
    /\ pc = "imwrite"
    /\ image[1] # image[2]
    /\ inpaintCall.mask = << image[1], image[2] >>
    /\ Len(image) = 3

\* C8: the text anchor is x = floor((W - tw) / 2), y = floor((H + th) / 2);
\* when the text is wider than the canvas x is negative, and
\* generate_text_mask still returns to remove_watermark without an error.
AnchorIsFloorCentred ==
    /\ pc \in {"inpaint", "imwrite"} =>
          LET H  == image[1]
              W  == image[2]
              tw == getTextSize(text)[1]
              th == getTextSize(text)[2]
              x  == mask.org[1]
              y  == mask.org[2]
          IN  /\ 2 * x <= W - tw /\ W - tw < 2 * x + 2
              /\ 2 * y <= H + th /\ H + th < 2 * y + 2
              /\ tw > W => x < 0
    /\ (calls # <<>> /\ Last(calls).op = "generate_text_mask") =>
          pc = "inpaint" /\ exc = "none"

AnchorIsFloorCentredWitness ==
    /\ pc = "inpaint"
    /\ getTextSize(text)[1] > image[2]
    /\ (getTextSize(text)[1] - image[2]) % 2 = 1
    /\ mask.org[1] < 0
    /\ mask.on # {}

\* C9: the files the batch works on are exactly the direct children of the
\* input directory with an allowed extension (case-insensitive): nothing
\* else is read, written or counted, and nothing below a subdirectory is
\* touched.
OnlyAllowedChildren ==
    /\ (Says("Found") \/ Says("No image files found")) =>
          /\ Range(image_files) = AllowedChildren
          /\ Len(image_files) = Cardinality(AllowedChildren)
    /\ \A i \in DOMAIN calls : calls[i].path \in AllowedChildren
    /\ \A n \in written : <<n>> \in AllowedChildren
    /\ SummaryPrinted =>
          /\ Range(Attempts) = AllowedChildren
          /\ \A s \in Tally("Successful"), f \in Tally("Failed") :
                s + f = Cardinality(AllowedChildren)

OnlyAllowedChildrenWitness ==
    /\ SummaryPrinted
    /\ <<B_JPEG>> \in Range(Attempts)
    /\ \E p \in fs : Len(p) = 1 /\ p \notin AllowedChildren
    /\ \E p \in fs : Len(p) = 2

\* C10: the list is fixed before the first file is read; the files are read
\* in list order, each once; the calls for one file (read, mask, inpaint,
\* write) are finished before the next file is read; every call uses the
\* run's watermark text; at the summary every listed file has been read.
StrictlySequentialState ==
    /\ Len(Attempts) <= Len(image_files)
    /\ \A i \in DOMAIN Attempts : i <= Len(image_files) /\ Attempts[i] = image_files[i]
    /\ \A i \in DOMAIN calls :
          /\ calls[i].text = text
          /\ calls[i].op = "imread" =>
                i = 1 \/ calls[i - 1].ret \in {"None", "True", "False"}
          /\ calls[i].op = "generate_text_mask" =>
                /\ i > 1
                /\ calls[i - 1] = Call("imread", calls[i].path, text, "image")
          /\ calls[i].op = "inpaint" =>
                /\ i > 1
                /\ calls[i - 1] = Call("generate_text_mask", calls[i].path, text, "mask")
          /\ calls[i].op = "imwrite" =>
                /\ i > 1
                /\ calls[i - 1] = Call("inpaint", calls[i].path, text, "result")
    /\ SummaryPrinted => Attempts = image_files

StrictlySequential ==
    /\ []StrictlySequentialState
    /\ [][calls' # <<>> => image_files' = image_files]_vars

StrictlySequentialWitness ==
    /\ SummaryPrinted
    /\ Len(image_files) > 1
    /\ DecodeFailed # {}
    /\ written # {}

TypeOK ==
    /\ pc \in {"mkdir", "list", "imread", "mask", "inpaint", "imwrite", "summary", "exit"}
    /\ processed_count \in 0..MaxFiles
    /\ idx \in 0..(MaxFiles + 1)

====
